---- MODULE Spec2Model ----
(***************************************************************************)
(* RAG application: HTTP request handlers in front of an external vector   *)
(* store (Qdrant), an embedding service and a chat model.                  *)
(*                                                                         *)
(* The repository holds three deployments of the same server:              *)
(*   "express"  src/unnamed/part_000      (Express server)                 *)
(*   "next"     src/pages/api/upload.js, src/pages/index.js (chat, text),  *)
(*              src/unnamed/part_005 (scrape), src/pages/api/store/*.js    *)
(*   "day4"     src/Day4-RAG/server.js    (earlier Express server)         *)
(* A behaviour fixes one deployment and runs requests against it.  Every   *)
(* await on an external collaborator is one step of the request; the       *)
(* synchronous code between two awaits belongs to the step that precedes   *)
(* it.  A collaborator may answer, fail, or never answer (the step is then *)
(* never taken).                                                           *)
(***************************************************************************)
EXTENDS Integers, Sequences, FiniteSets, TLC

VARIABLES variant, env, proc, reported, store, rq, arrived, sinceClear,
          isProcessing, files, up, busy, toast, polled

\* the server side and the browser side
back == <<variant, env, proc, reported, store, rq, arrived, sinceClear>>
front == <<isProcessing, files, up, busy, toast, polled>>

vars == <<back, front>>

(***************************************************************************)
(* Bounds of the model                                                     *)
(***************************************************************************)
MaxRequests == 2
MaxFiles == 2
MaxPolls == 2

Variants == {"express", "next", "day4"}
Slots == {1, 2}
Kinds == {"upload", "text", "scrape", "chat", "stats", "clear"}
Ingest == {"upload", "text", "scrape"}

(***************************************************************************)
(* Program constants                                                       *)
(***************************************************************************)
chunkSize == 1000
chunkOverlap == 200
fileSize == 10485760
kExpress == 5
kDay4 == 3

Hyphen == "chaicode-collection"
Underscore == "chaicode_collection"
Collections == {Hyphen, Underscore}
\* a collection of the vector database: absent, or its points in rank order
\* vectors: { size: 768, distance: "Cosine" }, the dimension of text-embedding-004
VectorsConfig == [size |-> 768, distance |-> "Cosine"]
NoVectors == [size |-> 0, distance |-> "none"]
\* leftAbsent: a clear deleted the collection and failed to recreate it
Absent == [exists |-> FALSE, points |-> <<>>, vectors |-> NoVectors, leftAbsent |-> FALSE]
Empty == [exists |-> TRUE, points |-> <<>>, vectors |-> VectorsConfig, leftAbsent |-> FALSE]
\* a collection holding chunks that an earlier run of the server ingested,
\* more of them than a retriever asks for
SeedPoint(c, source, type) ==
    [pageContent |-> <<c>>, metadata |-> [source |-> source, type |-> type]]
Seeded ==
    [exists |-> TRUE, vectors |-> VectorsConfig, leftAbsent |-> FALSE,
     points |-> <<SeedPoint("s1", "direct-input", "text"), SeedPoint("s2", "u", "website"),
                  SeedPoint("s3", "f", "pdf"), SeedPoint("s4", "direct-input", "text"),
                  SeedPoint("s5", "u", "website"), SeedPoint("s6", "f", "pdf")>>]
NoCount == 0 - 1

\* requiredEnvVars of the two Express servers; the Next.js handlers check nothing
requiredEnvVars(v) ==
    IF v \in {"express", "day4"} THEN {"GOOGLE_API_KEY", "QDRANT_URL"} ELSE {}
EnvNames == {"GOOGLE_API_KEY", "QDRANT_URL"}

\* qdrantConfig.url: process.env.QDRANT_URL || "http://localhost:6333"
QdrantUrl == IF "QDRANT_URL" \in env THEN "QDRANT_URL" ELSE "http://localhost:6333"

\* the collection each handler's qdrantConfig names
qdrantConfig(v, k) ==
    IF v = "next" /\ k \in {"text", "clear"} THEN Underscore ELSE Hyphen

\* the handlers that arm a setTimeout racing the handler body
HasTimer(v, k) == v = "next" /\ k \in {"upload", "text", "scrape", "clear"}

\* asRetriever({ k })
RetrieverK(v) == IF v = "day4" THEN kDay4 ELSE kExpress

(***************************************************************************)
(* Text: a sequence of tokens; " " is white space.                          *)
(***************************************************************************)
IsSpace(c) == c = " "

RECURSIVE TrimLeft(_)
TrimLeft(t) == IF t = <<>> THEN <<>> ELSE IF IsSpace(Head(t)) THEN TrimLeft(Tail(t)) ELSE t
RECURSIVE TrimRight(_)
TrimRight(t) ==
    IF t = <<>> THEN <<>>
    ELSE IF IsSpace(t[Len(t)]) THEN TrimRight(SubSeq(t, 1, Len(t) - 1)) ELSE t
\* String.prototype.trim
Trim(t) == TrimRight(TrimLeft(t))

\* .replace(/\s+/g, ' ')
RECURSIVE CollapseWs(_)
CollapseWs(t) ==
    IF t = <<>> THEN <<>>
    ELSE IF IsSpace(Head(t)) /\ Len(t) > 1 /\ IsSpace(t[2]) THEN CollapseWs(Tail(t))
    ELSE <<Head(t)>> \o CollapseWs(Tail(t))

(***************************************************************************)
(* Chunk splitter: RecursiveCharacterTextSplitter({chunkSize, chunkOverlap}) *)
(***************************************************************************)
RECURSIVE Windows(_)
Windows(t) ==
    IF Len(t) <= chunkSize THEN <<t>>
    ELSE <<SubSeq(t, 1, chunkSize)>> \o Windows(SubSeq(t, chunkSize - chunkOverlap + 1, Len(t)))

\* pieces are trimmed when merged and empty ones are dropped
RECURSIVE DropBlank(_)
DropBlank(ts) ==
    IF ts = <<>> THEN <<>>
    ELSE IF Trim(Head(ts)) = <<>> THEN DropBlank(Tail(ts))
    ELSE <<Trim(Head(ts))>> \o DropBlank(Tail(ts))

splitText(t) == DropBlank(Windows(t))

RECURSIVE splitDocuments(_)
splitDocuments(docs) ==
    IF docs = <<>> THEN <<>>
    ELSE LET d == Head(docs)
             cs == splitText(d.pageContent)
         IN  [i \in 1..Len(cs) |-> [pageContent |-> cs[i], metadata |-> d.metadata]]
             \o splitDocuments(Tail(docs))

(***************************************************************************)
(* Source normalizers                                                      *)
(***************************************************************************)
FileName == "f"
PageHeader == <<"Page 1:", "\n">>
NoTextMsg == <<"PDF file was processed but contains no extractable text.">>
ExtractFailedMsg == <<"PDF file has been uploaded but automatic text extraction failed.">>

\* processPDF of part_000 and pages/api/upload.js; never throws
processPDF(file) ==
    IF file.pdf = "parseError"
    THEN <<[pageContent |-> ExtractFailedMsg,
            metadata |-> [source |-> FileName, type |-> "pdf", error |-> "parse",
                          note |-> "Manual extraction required"]]>>
    ELSE IF file.pdf = "imageOnly"
    THEN <<[pageContent |-> NoTextMsg,
            metadata |-> [source |-> FileName, type |-> "pdf",
                          note |-> "No text content found"]]>>
    ELSE <<[pageContent |-> Trim(PageHeader \o file.text),
            metadata |-> [source |-> FileName, type |-> "pdf", pages |-> "1"]]>>

\* new PDFLoader(blob).load() of Day4-RAG/server.js; a parse error is thrown
PDFLoaderLoad(file) ==
    IF file.pdf = "imageOnly" THEN <<>>
    ELSE <<[pageContent |-> file.text, metadata |-> [source |-> "blob", page |-> "1"]]>>

processTextFile(file) ==
    <<[pageContent |-> file.text, metadata |-> [source |-> FileName]]>>

Url == "u"
\* a scrapeWebsite that returns no document for a page without text
scrapeWebsiteDropsEmpty(page) ==
    IF Trim(CollapseWs(page)) = <<>> THEN <<>>
    ELSE <<[pageContent |-> Trim(CollapseWs(page)),
            metadata |-> [source |-> Url, type |-> "website"]]>>

\* scrapeWebsite after a successful axios.get: always one document
scrapeWebsite(page) ==
    <<[pageContent |-> Trim(CollapseWs(page)),
       metadata |-> [source |-> Url, type |-> "website"]]>>

\* CheerioWebBaseLoader(url).load() of Day4-RAG/server.js: always one document
CheerioLoad(page) ==
    <<[pageContent |-> page, metadata |-> [source |-> Url]]>>

\* Day4-RAG/server.js: splits.forEach(split => { metadata.source = url; metadata.type = 'website' })
TagWebsite(splits) ==
    [i \in 1..Len(splits) |->
        [pageContent |-> splits[i].pageContent,
         metadata |-> [source |-> Url, type |-> "website"]]]

\* a text document whose content is the text as posted
textDocUntrimmed(text) ==
    <<[pageContent |-> text,
       metadata |-> [source |-> "direct-input", type |-> "text"]]>>

\* app.post('/api/text'): the document built from the posted text
textDoc(text) ==
    <<[pageContent |-> Trim(text),
       metadata |-> [source |-> "direct-input", type |-> "text"]]>>

(***************************************************************************)
(* Request inputs                                                          *)
(***************************************************************************)
\* present: the body field / file part is there and truthy
MkInput(present, mime, pdf, size, text, reach) ==
    [present |-> present, mime |-> mime, pdf |-> pdf, size |-> size, text |-> text,
     reach |-> reach]

NoInput == MkInput(FALSE, "none", "none", 0, <<>>, FALSE)

UploadInputs ==
    {NoInput,
     MkInput(TRUE, "application/pdf", "ok", 1, <<"a">>, FALSE),
     MkInput(TRUE, "application/pdf", "parseError", 1, <<>>, FALSE),
     MkInput(TRUE, "application/pdf", "imageOnly", 1, <<>>, FALSE),
     MkInput(TRUE, "text/plain", "none", 2, <<"a", " ">>, FALSE),
     MkInput(TRUE, "text/plain", "none", 1, <<" ">>, FALSE),
     MkInput(TRUE, "text/csv", "none", 1, <<"a">>, FALSE),
     MkInput(TRUE, "image/png", "none", 1, <<>>, FALSE),
     MkInput(TRUE, "image/png", "none", fileSize + 1, <<>>, FALSE),
     MkInput(TRUE, "text/plain", "none", fileSize + 1, <<"a">>, FALSE)}

\* !text is true of a missing and of an empty text alike
TextInputs ==
    {NoInput,
     MkInput(TRUE, "none", "none", 1, <<" ">>, FALSE),
     MkInput(TRUE, "none", "none", 3, <<" ", "a", " ">>, FALSE)}

\* no url; an unreachable url; a page without text; a page with text
ScrapeInputs ==
    {NoInput,
     MkInput(TRUE, "none", "none", 0, <<>>, FALSE),
     MkInput(TRUE, "none", "none", 1, <<" ">>, TRUE),
     MkInput(TRUE, "none", "none", 4, <<"a", " ", " ", "a">>, TRUE)}

ChatInputs == {NoInput, MkInput(TRUE, "none", "none", 1, <<"a">>, FALSE)}

InputsOf(k) ==
    CASE k = "upload" -> UploadInputs
      [] k = "text" -> TextInputs
      [] k = "scrape" -> ScrapeInputs
      [] k = "chat" -> ChatInputs
      [] OTHER -> {NoInput}

(***************************************************************************)
(* One request: its handler's position and what it has sent                *)
(***************************************************************************)
Idle ==
    [kind |-> "none", in |-> NoInput, pc |-> "idle",
     status |-> 0, body |-> "none", chunks |-> NoCount, details |-> FALSE,
     timer |-> "none", calls |-> {},
     docs |-> <<>>, splits |-> <<>>, found |-> <<>>, prompt |-> <<>>,
     modelCalls |-> 0, clean |-> FALSE, failedAt |-> "none",
     wrote |-> 0, touched |-> FALSE, afterText |-> FALSE]

\* the collaborators a pending await is waiting for
ServiceOf(p) ==
    CASE p = "fetch" -> {"http"}
      [] p \in {"open", "create", "upsert", "delete", "put"} -> {"qdrant"}
      [] p = "embed" -> {"embedding"}
      [] p \in {"fromDocs", "search"} -> {"embedding", "qdrant"}
      [] p = "generate" -> {"chat-model"}
      [] OTHER -> {}

\* the handler suspends at the await p
Issue(q, p) == [q EXCEPT !.pc = p, !.calls = @ \cup ServiceOf(p)]

\* const timeout = setTimeout(...)
SetTimeout(q) == IF HasTimer(variant, q.kind) THEN [q EXCEPT !.timer = "armed"] ELSE q

\* clearTimeout(timeout)
ClearTimeout(q) == IF q.timer = "armed" THEN [q EXCEPT !.timer = "cleared"] ELSE q

\* res.status(status).json(...) with no response sent before
Send(q, status, body, chunks, details) ==
    [q EXCEPT !.status = status, !.body = body, !.chunks = chunks, !.details = details,
              !.pc = "done"]

ErrorBody(k) ==
    CASE k = "upload" -> "Failed to process file."
      [] k = "text" -> "Failed to process text input."
      [] k = "scrape" -> "Failed to scrape website"
      [] k = "chat" -> "Failed to get a chat reply."
      [] k = "stats" -> "Failed to get store statistics."
      [] OTHER -> "Failed to clear store."

\* what the 500 response of the catch block carries besides the error text
CatchChunks(q) == NoCount

\* a catch block that answers 500 without looking at res.headersSent
CatchUnguarded(q, at) ==
    Send([q EXCEPT !.failedAt = at], 500, ErrorBody(q.kind), CatchChunks(q),
         variant = "next" /\ q.kind # "chat")

\* the catch block of a handler, entered from the await `at`
Catch(q, at) ==
    LET q1 == [q EXCEPT !.failedAt = at]
    IN  IF HasTimer(variant, q.kind) /\ q.status # 0
        THEN [q1 EXCEPT !.pc = "done"]
        ELSE Send(q1, 500, ErrorBody(q.kind), CatchChunks(q1),
                  variant = "next" /\ q.kind # "chat")

\* res.json(...) inside the try block: throws into the catch block when the
\* timeout response has been sent already
Reply(q, status, body, chunks) ==
    IF q.status # 0 THEN Catch(q, "reply") ELSE Send(q, status, body, chunks, FALSE)

SuccessBody(k) ==
    CASE k = "upload" -> "File uploaded and processed successfully."
      [] k = "text" -> "Text content added to RAG store successfully."
      [] k = "scrape" -> "Website content scraped and indexed successfully."
      [] OTHER -> "ok"

\* the success response of an ingestion handler
Success(q) ==
    Reply(ClearTimeout(q), 200, SuccessBody(q.kind),
          IF variant = "day4" /\ q.kind = "upload" THEN NoCount ELSE Len(q.splits))

\* getVectorStore() / QdrantVectorStore.fromDocuments(splits, ...) is awaited next
ToStore(q) ==
    IF variant = "day4" /\ q.kind \in Ingest THEN Issue(q, "fromDocs") ELSE Issue(q, "open")

\* getVectorStore() has returned a handle
AfterStore(q) ==
    CASE q.kind \in Ingest -> IF q.splits = <<>> THEN Success(q) ELSE Issue(q, "embed")
      [] q.kind = "chat" -> Issue(q, "search")
      [] OTHER -> Reply(q, 200, "ready", NoCount)

\* the points addDocuments writes for a request: content and metadata of each chunk
Records(q) == q.splits

\* bookkeeping: the request has written n points / has changed the database
Wrote(q, n) == [q EXCEPT !.wrote = @ + n, !.touched = TRUE]
Touched(q, changed) == [q EXCEPT !.touched = @ \/ changed]

Min(a, b) == IF a <= b THEN a ELSE b

\* the grounding block of the chat prompt, one entry per retrieved chunk
Context(found) ==
    [i \in 1..Len(found) |->
        [label |-> <<IF variant = "day4" THEN "Chunk" ELSE "Document", i>>,
         source |-> IF variant = "day4" THEN "none"
                    ELSE IF "source" \in DOMAIN found[i].metadata
                         THEN found[i].metadata.source ELSE "Unknown source",
         page |-> IF "page" \in DOMAIN found[i].metadata THEN found[i].metadata.page ELSE "",
         content |-> found[i].pageContent]]

CannedReply == "I don't have any relevant information to answer your question."

\* the chunks the text handler can write
TextChunks ==
    UNION {{d[j] : j \in DOMAIN d} :
              d \in {splitDocuments(textDoc(in.text)) : in \in TextInputs \ {NoInput}}}

\* the vector database holds chunks, and only chunks the text handler wrote
TextOnly ==
    /\ \E c \in Collections : store[c].points # <<>>
    /\ \A c \in Collections : \A i \in DOMAIN store[c].points :
            store[c].points[i] \in TextChunks

InFlight(k) == \E s \in Slots : rq[s].kind \in k /\ rq[s].pc # "done"

\* a finished response is handed over and its slot freed before any handler resumes
Quiet == \A s \in Slots : rq[s].pc # "done"
\* request r is suspended at the await p
At(r, p) == Quiet /\ rq[r].pc = p

(***************************************************************************)
(* Initial state: a deployment, its environment, the vector database as    *)
(* earlier runs left it, no request yet.                                   *)
(***************************************************************************)
Init ==
    /\ variant \in Variants
    /\ env \in SUBSET EnvNames
    /\ proc = "starting"
    /\ reported = {}
    /\ store \in {[c \in Collections |-> Absent],
                  [c \in Collections |->
                      IF c \in {qdrantConfig(variant, k) : k \in Kinds} THEN Seeded ELSE Absent]}
    /\ rq = [r \in Slots |-> Idle]
    /\ arrived = 0
    /\ sinceClear = FALSE
    /\ isProcessing = FALSE
    /\ files = <<>>
    /\ up = [pc |-> "idle", snapshot |-> <<>>, sent |-> <<>>, results |-> <<>>]
    /\ busy = {}
    /\ toast = "none"
    /\ polled = 0

\* module load: the environment check, then app.listen
Startup ==
    /\ proc = "starting"
    /\ LET missingEnvVars == requiredEnvVars(variant) \ env
       IN  IF missingEnvVars # {}
           THEN /\ reported' = missingEnvVars
                /\ proc' = "exited"
           ELSE /\ proc' = "listening"
                /\ UNCHANGED reported
    /\ UNCHANGED <<front, variant, env, store, rq, arrived, sinceClear>>

\* pages/api: every route module but store/clear.js constructs
\* GoogleGenerativeAIEmbeddings({ apiKey: process.env.GOOGLE_API_KEY }) when it is
\* loaded, which throws without a key; the framework then answers 500
ModuleLoads(k) == variant = "next" /\ k # "clear" => "GOOGLE_API_KEY" \in env

\* the synchronous head of each handler, up to its first await
Begin(q) ==
    CASE ~ModuleLoads(q.kind) -> Send(q, 500, "Internal Server Error", NoCount, FALSE)
      [] q.kind = "upload" -> Issue(SetTimeout(q), "multer")
      [] q.kind = "text" ->
            IF ~q.in.present \/ Trim(q.in.text) = <<>>
            THEN Send(q, 400, "No text provided.", NoCount, FALSE)
            ELSE LET docs == textDoc(q.in.text)
                 IN  ToStore([SetTimeout(q) EXCEPT !.docs = docs,
                                                   !.splits = splitDocuments(docs)])
      [] q.kind = "scrape" ->
            IF ~q.in.present
            THEN Send(q, 400, "No URL provided.", NoCount, FALSE)
            ELSE Issue(SetTimeout(q), "fetch")
      [] q.kind = "chat" ->
            IF ~q.in.present
            THEN Send(q, 400, "No message provided.", NoCount, FALSE)
            ELSE Issue(q, "open")
      [] q.kind = "stats" -> Issue(q, "open")
      [] OTHER ->
            IF variant = "day4"
            THEN Send(q, 200, "Store cleared successfully.", NoCount, FALSE)
            ELSE Issue(SetTimeout(q), "delete")

\* a request arrives and its handler runs to its first await
Arrive(r, k, in) ==
    /\ proc = "listening"
    /\ At(r, "idle")
    /\ \A s \in Slots : s < r => rq[s].pc # "idle"
    /\ arrived < MaxRequests
    /\ arrived' = arrived + 1
    /\ rq' = [rq EXCEPT ![r] = Begin([Idle EXCEPT !.kind = k, !.in = in,
                                                  !.clean = sinceClear])]
    /\ sinceClear' = IF k \in Ingest THEN FALSE
                     ELSE IF k = "clear" /\ variant = "day4" THEN ~InFlight(Ingest)
                     ELSE sinceClear
    /\ UNCHANGED <<front, variant, env, proc, reported, store>>

\* upload.single('file') has parsed the multipart body; the rest of the upload
\* handler up to the store
AfterMulter(q) ==
    LET f == q.in
    IN  IF variant = "next" /\ f.present /\ f.size > fileSize
        THEN Catch(q, "multer")
        ELSE IF ~f.present
        THEN Reply(ClearTimeout(q), 400, "No file uploaded.", NoCount)
        ELSE IF variant = "next" /\ f.size > fileSize
        THEN Reply(ClearTimeout(q), 400, "File too large. Maximum size is 10MB.", NoCount)
        ELSE IF f.mime = "application/pdf"
        THEN IF variant = "day4"
             THEN IF f.pdf = "parseError"
                  THEN Catch(q, "pdf")
                  ELSE LET docs == PDFLoaderLoad(f)
                       IN  ToStore([q EXCEPT !.docs = docs, !.splits = splitDocuments(docs)])
             ELSE LET docs == processPDF(f)
                  IN  ToStore([q EXCEPT !.docs = docs, !.splits = splitDocuments(docs)])
        ELSE IF f.mime \in {"text/plain", "text/csv"}
        THEN LET docs == processTextFile(f)
             IN  ToStore([q EXCEPT !.docs = docs, !.splits = splitDocuments(docs)])
        ELSE Reply(ClearTimeout(q), 400, <<"Unsupported file type: ", f.mime>>, NoCount)

Multer(r) ==
    /\ At(r, "multer")
    /\ rq' = [rq EXCEPT ![r] = AfterMulter(rq[r])]
    /\ UNCHANGED <<front, variant, env, proc, reported, store, arrived, sinceClear>>

\* a scrape handler that takes a failed fetch for a page without content
AfterFetchSwallows(q) ==
    LET docs == scrapeWebsite(IF q.in.reach THEN q.in.text ELSE <<>>)
    IN  ToStore([q EXCEPT !.docs = docs, !.splits = splitDocuments(docs)])

\* the scrape handler after the page fetch has answered
AfterFetch(q) ==
    IF ~q.in.reach
    THEN Catch(q, "fetch")
    ELSE LET docs == IF variant = "day4" THEN CheerioLoad(q.in.text)
                     ELSE scrapeWebsite(q.in.text)
         IN  IF Len(docs) = 0
             THEN Reply(ClearTimeout(q), 400, "No content found at the provided URL.", NoCount)
             ELSE ToStore([q EXCEPT !.docs = docs,
                                    !.splits = IF variant = "day4"
                                               THEN TagWebsite(splitDocuments(docs))
                                               ELSE splitDocuments(docs)])

Fetch(r) ==
    /\ At(r, "fetch")
    /\ rq' = [rq EXCEPT ![r] = AfterFetch(rq[r])]
    /\ UNCHANGED <<front, variant, env, proc, reported, store, arrived, sinceClear>>

(***************************************************************************)
(* getVectorStore and the write path                                       *)
(***************************************************************************)
\* a getVectorStore that hands out a handle although the open failed
OpenStoreSwallows(r, ok) ==
    /\ At(r, "open")
    /\ ok => store[qdrantConfig(variant, rq[r].kind)].exists
    /\ rq' = [rq EXCEPT ![r] = AfterStore(@)]
    /\ UNCHANGED <<front, variant, env, proc, reported, store, arrived, sinceClear>>

\* QdrantVectorStore.fromExistingCollection answers: a handle when the
\* collection exists, an error otherwise or when the database fails
OpenStore(r, ok) ==
    /\ At(r, "open")
    /\ ok => store[qdrantConfig(variant, rq[r].kind)].exists
    /\ rq' = [rq EXCEPT ![r] =
                IF ok THEN AfterStore(@)
                ELSE IF variant = "day4" THEN Catch(@, "open")
                ELSE Issue(@, "create")]
    /\ UNCHANGED <<front, variant, env, proc, reported, store, arrived, sinceClear>>

\* a getVectorStore whose fallback replaces the collection by an empty one
CreateStoreResets(r, ok) ==
    /\ At(r, "create")
    /\ LET c == qdrantConfig(variant, rq[r].kind)
       IN  IF ok
           THEN /\ store' = [store EXCEPT ![c] = Empty]
                /\ rq' = [rq EXCEPT ![r] = AfterStore(Touched(@, TRUE))]
           ELSE /\ rq' = [rq EXCEPT ![r] = Catch(@, "create")]
                /\ UNCHANGED store
    /\ UNCHANGED <<front, variant, env, proc, reported, arrived, sinceClear>>

\* QdrantVectorStore.fromDocuments([], ...) answers: the collection exists now
CreateStore(r, ok) ==
    /\ At(r, "create")
    /\ LET c == qdrantConfig(variant, rq[r].kind)
       IN  IF ok
           THEN /\ store' = [store EXCEPT ![c].exists = TRUE, ![c].vectors = VectorsConfig,
                                         ![c].leftAbsent = FALSE]
                /\ rq' = [rq EXCEPT ![r] = AfterStore(Touched(@, ~store[c].exists))]
           ELSE /\ rq' = [rq EXCEPT ![r] = Catch(@, "create")]
                /\ UNCHANGED store
    /\ UNCHANGED <<front, variant, env, proc, reported, arrived, sinceClear>>

\* addDocuments: the embedding call for the request's chunks answers
Embed(r, ok) ==
    /\ At(r, "embed")
    /\ rq' = [rq EXCEPT ![r] = IF ok THEN Issue(@, "upsert") ELSE Catch(@, "embed")]
    /\ UNCHANGED <<front, variant, env, proc, reported, store, arrived, sinceClear>>

\* an upsert that creates the collection it misses
UpsertRecreates(r, ok) ==
    /\ At(r, "upsert")
    /\ LET c == qdrantConfig(variant, rq[r].kind)
       IN  IF ok
           THEN /\ store' = [store EXCEPT ![c] =
                                [exists |-> TRUE, points |-> @.points \o Records(rq[r]),
                                 vectors |-> VectorsConfig, leftAbsent |-> FALSE]]
                /\ rq' = [rq EXCEPT ![r] = Success(Wrote(@, Len(Records(rq[r]))))]
           ELSE /\ rq' = [rq EXCEPT ![r] = Catch(@, "upsert")]
                /\ UNCHANGED store
    /\ UNCHANGED <<front, variant, env, proc, reported, arrived, sinceClear>>

\* addDocuments: the upsert of the request's points answers
Upsert(r, ok) ==
    /\ At(r, "upsert")
    /\ LET c == qdrantConfig(variant, rq[r].kind)
       IN  IF ok
           THEN /\ store[c].exists
                /\ store' = [store EXCEPT ![c].points = @ \o Records(rq[r])]
                /\ rq' = [rq EXCEPT ![r] = Success(Wrote(@, Len(Records(rq[r]))))]
           ELSE /\ rq' = [rq EXCEPT ![r] = Catch(@, "upsert")]
                /\ UNCHANGED store
    /\ UNCHANGED <<front, variant, env, proc, reported, arrived, sinceClear>>

\* a fromDocuments that replaces the content of the collection
FromDocsOverwrites(r, ok) ==
    /\ At(r, "fromDocs")
    /\ LET c == qdrantConfig(variant, rq[r].kind)
       IN  IF ok
           THEN /\ store' = [store EXCEPT ![c] =
                                [exists |-> TRUE, points |-> Records(rq[r]),
                                 vectors |-> VectorsConfig, leftAbsent |-> FALSE]]
                /\ rq' = [rq EXCEPT ![r] =
                            Success(Wrote(Touched(@, ~store[c].exists), Len(Records(rq[r]))))]
           ELSE /\ rq' = [rq EXCEPT ![r] = Catch(@, "fromDocs")]
                /\ UNCHANGED store
    /\ UNCHANGED <<front, variant, env, proc, reported, arrived, sinceClear>>

\* Day4-RAG/server.js: QdrantVectorStore.fromDocuments(splits, ...) answers
FromDocs(r, ok) ==
    /\ At(r, "fromDocs")
    /\ LET c == qdrantConfig(variant, rq[r].kind)
       IN  IF ok
           THEN /\ store' = [store EXCEPT ![c] =
                                [exists |-> TRUE, points |-> @.points \o Records(rq[r]),
                                 vectors |-> VectorsConfig, leftAbsent |-> FALSE]]
                /\ rq' = [rq EXCEPT ![r] =
                            Success(Wrote(Touched(@, ~store[c].exists), Len(Records(rq[r]))))]
           ELSE /\ rq' = [rq EXCEPT ![r] = Catch(@, "fromDocs")]
                /\ UNCHANGED store
    /\ UNCHANGED <<front, variant, env, proc, reported, arrived, sinceClear>>

(***************************************************************************)
(* Chat                                                                    *)
(***************************************************************************)
\* the chat handler once retriever.invoke(message) has returned `found`
AfterSearch(q, found) ==
    LET q1 == [q EXCEPT !.found = found, !.clean = @ /\ sinceClear,
                        !.afterText = TextOnly]
    IN  IF variant # "day4" /\ Len(found) = 0
        THEN Reply(q1, 200, CannedReply, NoCount)
        ELSE Issue([q1 EXCEPT !.prompt = Context(found)], "generate")

\* retriever.invoke(message) answers: the k best chunks of the collection
Search(r, ok) ==
    /\ At(r, "search")
    /\ LET c == qdrantConfig(variant, rq[r].kind)
       IN  IF ok
           THEN /\ store[c].exists
                /\ rq' = [rq EXCEPT ![r] =
                            AfterSearch(@, SubSeq(store[c].points, 1,
                                                  Min(RetrieverK(variant), Len(store[c].points))))]
           ELSE rq' = [rq EXCEPT ![r] = Catch(@, "search")]
    /\ UNCHANGED <<front, variant, env, proc, reported, store, arrived, sinceClear>>

\* a chat handler that calls the model a second time when the first call fails
GenerateRetries(r, ok) ==
    /\ At(r, "generate")
    /\ rq' = [rq EXCEPT ![r] =
                LET q == [@ EXCEPT !.modelCalls = @ + 1]
                IN  IF ok THEN Reply(q, 200, "reply", NoCount)
                    ELSE IF q.modelCalls < 2 THEN q
                    ELSE Catch(q, "generate")]
    /\ UNCHANGED <<front, variant, env, proc, reported, store, arrived, sinceClear>>

\* chatModel.generateContent(prompt) answers
Generate(r, ok) ==
    /\ At(r, "generate")
    /\ rq' = [rq EXCEPT ![r] =
                LET q == [@ EXCEPT !.modelCalls = @ + 1]
                IN  IF ok THEN Reply(q, 200, "reply", NoCount) ELSE Catch(q, "generate")]
    /\ UNCHANGED <<front, variant, env, proc, reported, store, arrived, sinceClear>>

(***************************************************************************)
(* Clear                                                                   *)
(***************************************************************************)
\* the DELETE of the collection answers: "ok", "404" or anything else
ClearDelete(r, answer) ==
    /\ At(r, "delete")
    /\ LET c == qdrantConfig(variant, rq[r].kind)
       IN  /\ answer = "ok" => store[c].exists
           /\ answer = "404" => ~store[c].exists
           /\ store' = [store EXCEPT ![c] = IF answer = "ok" THEN Absent ELSE @]
           /\ rq' = [rq EXCEPT ![r] =
                       IF answer \in {"ok", "404"} THEN Issue(Touched(@, answer = "ok"), "put")
                       ELSE Catch(@, "delete")]
    /\ UNCHANGED <<front, variant, env, proc, reported, arrived, sinceClear>>

\* the PUT that recreates the collection answers
ClearPut(r, ok) ==
    /\ At(r, "put")
    /\ LET c == qdrantConfig(variant, rq[r].kind)
       IN  IF ok
           THEN /\ ~store[c].exists
                /\ store' = [store EXCEPT ![c] = Empty]
                /\ rq' = [rq EXCEPT ![r] =
                            Reply(ClearTimeout(Touched(@, TRUE)), 200,
                                  "Store cleared and recreated successfully.", NoCount)]
                /\ sinceClear' = (rq[r].status = 0 /\ ~InFlight(Ingest))
           ELSE /\ rq' = [rq EXCEPT ![r] = Catch(@, "put")]
                /\ store' = [store EXCEPT ![c].leftAbsent = ~store[c].exists]
                /\ UNCHANGED sinceClear
    /\ UNCHANGED <<front, variant, env, proc, reported, arrived>>

(***************************************************************************)
(* Time                                                                    *)
(***************************************************************************)
\* a timeout callback that also ends the handler
TimeoutFiresAborts(r) ==
    /\ rq[r].timer = "armed"
    /\ \A s \in Slots : s # r => rq[s].pc # "done"
    /\ rq' = [rq EXCEPT ![r] =
                [@ EXCEPT !.timer = "fired", !.pc = "done",
                          !.status = IF @ = 0 THEN 408 ELSE @,
                          !.body = IF rq[r].status = 0 THEN "Request timeout." ELSE @]]
    /\ UNCHANGED <<front, variant, env, proc, reported, store, arrived, sinceClear>>

\* the setTimeout callback: if (!res.headersSent) res.status(408).json(...)
TimeoutFires(r) ==
    /\ rq[r].timer = "armed"
    /\ \A s \in Slots : s # r => rq[s].pc # "done"
    /\ rq' = [rq EXCEPT ![r] =
                [@ EXCEPT !.timer = "fired",
                          !.status = IF @ = 0 THEN 408 ELSE @,
                          !.body = IF rq[r].status = 0 THEN "Request timeout." ELSE @]]
    /\ UNCHANGED <<front, variant, env, proc, reported, store, arrived, sinceClear>>

\* the connection is finished with; its slot serves a later request
Release(r) ==
    /\ rq[r].pc = "done"
    /\ rq' = [rq EXCEPT ![r] = Idle]
    /\ UNCHANGED <<front, variant, env, proc, reported, store, arrived, sinceClear>>

Next ==
    \/ Startup
    \/ \E r \in Slots, k \in Kinds : \E in \in InputsOf(k) : Arrive(r, k, in)
    \/ \E r \in Slots : Multer(r)
    \/ \E r \in Slots : Fetch(r)
    \/ \E r \in Slots, ok \in BOOLEAN : OpenStore(r, ok)
    \/ \E r \in Slots, ok \in BOOLEAN : CreateStore(r, ok)
    \/ \E r \in Slots, ok \in BOOLEAN : Embed(r, ok)
    \/ \E r \in Slots, ok \in BOOLEAN : Upsert(r, ok)
    \/ \E r \in Slots, ok \in BOOLEAN : FromDocs(r, ok)
    \/ \E r \in Slots, ok \in BOOLEAN : Search(r, ok)
    \/ \E r \in Slots, ok \in BOOLEAN : Generate(r, ok)
    \/ \E r \in Slots, answer \in {"ok", "404", "fail"} : ClearDelete(r, answer)
    \/ \E r \in Slots, ok \in BOOLEAN : ClearPut(r, ok)
    \/ \E r \in Slots : TimeoutFires(r)
    \/ \E r \in Slots : Release(r)

Spec == Init /\ [][Next]_vars

\* timers fire and finished responses are handed over; collaborators owe nothing
FairSpec ==
    Spec /\ \A r \in Slots : WF_vars(TimeoutFires(r)) /\ WF_vars(Release(r))

(***************************************************************************)
(* The browser frontend: class RAGApp (src/unnamed/part_001, served by the *)
(* Express server) and the Home component (src/pages/index.js).  The user  *)
(* picks files and starts operations; every fetch is one step, answered    *)
(* with success or with a failure (a response that is not ok, or an error  *)
(* thrown by fetch or by response.json()).  The status line that           *)
(* updateStoreStatus repaints is not part of the state.                    *)
(***************************************************************************)
\* the operations with a single request: add text, add URL, clear store
Ops == {"text", "url", "clear"}

\* the selections the user can make
Selections ==
    {s \in UNION {[1..n -> 1..MaxFiles] : n \in 0..MaxFiles} :
        \A i, j \in DOMAIN s : i # j => s[i] # s[j]}

\* no uploadFiles call yet
UpIdle == [pc |-> "idle", snapshot |-> <<>>, sent |-> <<>>, results |-> <<>>]

FrontInit ==
    /\ variant \in {"express", "next"}
    /\ env = EnvNames
    /\ proc = "listening"
    /\ reported = {}
    /\ store = [c \in Collections |-> Absent]
    /\ rq = [r \in Slots |-> Idle]
    /\ arrived = 0
    /\ sinceClear = FALSE
    /\ isProcessing = FALSE
    /\ files = <<>>
    /\ up = UpIdle
    /\ busy = {}
    /\ toast = "none"
    /\ polled = 0

\* showLoading(message)
showLoading == isProcessing' = TRUE

\* hideLoading()
hideLoading == isProcessing' = FALSE

\* showToast(message, type)
showToast(type) == toast' = type

\* the file input changes, or files are dropped on the drop zone
handleFileChange(sel) ==
    /\ files' = sel
    /\ UNCHANGED <<isProcessing, up, busy, toast, polled, back>>

\* addTextToStore / addUrlToStore / clearStore up to the await of their fetch;
\* go: the input is valid, or the user confirmed the clear
StartOp(k, go) ==
    /\ k \notin busy
    /\ IF go
       THEN /\ showLoading
            /\ busy' = busy \cup {k}
            /\ UNCHANGED toast
       ELSE /\ IF k = "clear" THEN UNCHANGED toast ELSE showToast("warning")
            /\ UNCHANGED <<isProcessing, busy>>
    /\ UNCHANGED <<files, up, polled, back>>

\* the fetch of addTextToStore / addUrlToStore / clearStore answers: the rest
\* of the try block or the catch block, then finally
Answered(k, ok) ==
    /\ k \in busy
    /\ showToast(IF ok THEN "success" ELSE "error")
    /\ hideLoading
    /\ busy' = busy \ {k}
    /\ UNCHANGED <<files, up, polled, back>>

\* uploadFiles up to the await of the first uploadFile
uploadFiles ==
    /\ up.pc = "idle"
    /\ IF Len(files) = 0
       THEN /\ showToast("warning")
            /\ UNCHANGED <<isProcessing, up>>
       ELSE /\ showLoading
            /\ up' = [pc |-> "fetch", snapshot |-> files, sent |-> <<files[1]>>,
                      results |-> <<>>]
            /\ UNCHANGED toast
    /\ UNCHANGED <<files, busy, polled, back>>

\* an uploadFiles that goes on with the next file after a failed upload
uploadFileGoesOn(ok) ==
    /\ up.pc = "fetch"
    /\ showToast(IF ok THEN "success" ELSE "error")
    /\ LET results == Append(up.results, ok)
           n == Len(up.sent)
       IN  IF n < Len(up.snapshot)
           THEN /\ up' = [up EXCEPT !.results = results,
                                    !.sent = Append(@, up.snapshot[n + 1])]
                /\ UNCHANGED <<isProcessing, files>>
           ELSE /\ files' = <<>>
                /\ hideLoading
                /\ up' = [up EXCEPT !.pc = "idle", !.results = results]
    /\ UNCHANGED <<busy, polled, back>>

\* the fetch of uploadFile answers: uploadFile ends, and uploadFiles goes on
\* with the next file, or ends
uploadFile(ok) ==
    /\ up.pc = "fetch"
    /\ showToast(IF ok THEN "success" ELSE "error")
    /\ LET results == Append(up.results, ok)
           n == Len(up.sent)
       IN  IF ok /\ n < Len(up.snapshot)
           THEN /\ up' = [up EXCEPT !.results = results,
                                    !.sent = Append(@, up.snapshot[n + 1])]
                /\ UNCHANGED <<isProcessing, files>>
           ELSE /\ files' = IF ok THEN <<>> ELSE files
                /\ hideLoading
                /\ up' = [up EXCEPT !.pc = "idle", !.results = results]
    /\ UNCHANGED <<busy, polled, back>>

\* the setInterval callback: if (!isProcessing) updateStoreStatus()
StatusPoll ==
    /\ polled < MaxPolls
    /\ polled' = IF ~isProcessing THEN polled + 1 ELSE polled
    /\ UNCHANGED <<isProcessing, files, up, busy, toast, back>>

FrontNext ==
    \/ \E sel \in Selections : handleFileChange(sel)
    \/ \E k \in Ops, go \in BOOLEAN : StartOp(k, go)
    \/ \E k \in Ops, ok \in BOOLEAN : Answered(k, ok)
    \/ uploadFiles
    \/ \E ok \in BOOLEAN : uploadFile(ok)
    \/ StatusPoll

FrontSpec == FrontInit /\ [][FrontNext]_vars

(***************************************************************************)
(* Claims                                                                  *)
(***************************************************************************)
Timed == {"upload", "text", "scrape", "chat", "clear"}
WriteSteps == {"embed", "upsert", "fromDocs"}
Range(f) == {f[i] : i \in DOMAIN f}

\* C1: a chat whose search runs after clear has answered success, with no
\* ingestion request since, retrieves no chunk and is answered with the canned
\* no-information reply.
C1_ClearThenChatFindsNothing ==
    \A r \in Slots :
        rq[r].kind = "chat" /\ rq[r].clean =>
            /\ Len(rq[r].found) = 0
            /\ rq[r].pc # "generate"
            /\ rq[r].status = 200 => rq[r].body = CannedReply

\* C2: the chunks an ingestion request has written are in the collection that
\* chat searches and in the collection that clear destroys.
C2_SingleCollection ==
    \A r \in Slots :
        rq[r].kind \in Ingest /\ rq[r].wrote > 0 /\ rq[r].pc = "done" =>
            /\ Range(rq[r].splits) \subseteq Range(store[qdrantConfig(variant, "chat")].points)
            /\ Range(rq[r].splits) \subseteq Range(store[qdrantConfig(variant, "clear")].points)

\* C3: every upload, text, scrape, chat and clear request that is in flight is
\* eventually answered (by its handler, or with 408 when its budget expires),
\* also when a collaborator never answers.
C3_EveryRequestAnswered ==
    \A r \in Slots :
        (rq[r].kind \in Timed /\ rq[r].pc \notin {"idle", "done"}) ~> (rq[r].status # 0)

\* C4: a request answered 400 has made no external call and has not changed
\* the vector database.
C4_ValidationBeforeCalls ==
    \A r \in Slots :
        rq[r].status = 400 => rq[r].calls = {} /\ ~rq[r].touched /\ rq[r].wrote = 0

\* C4 witness: an upload of an unsupported MIME type has been answered 400
\* after the multipart body was parsed.
C4_Witness ==
    \E r \in Slots :
        /\ rq[r].kind = "upload" /\ rq[r].in.mime = "image/png"
        /\ rq[r].pc = "done" /\ rq[r].status = 400

\* C5: the chat model is called only for a request whose search retrieved at
\* least one chunk.
C5_NoModelCallWithoutChunks ==
    \A r \in Slots :
        rq[r].kind = "chat" /\ (rq[r].pc = "generate" \/ rq[r].modelCalls > 0) =>
            Len(rq[r].found) > 0

\* C6: an upload of a PDF whose text extraction fails is never failed by the
\* extraction: it yields exactly one placeholder Document with the note
\* 'Manual extraction required' and goes on to chunking and storage.
C6_UnreadablePdfDegrades ==
    \A r \in Slots :
        /\ rq[r].kind = "upload" /\ rq[r].in.mime = "application/pdf"
        /\ rq[r].in.pdf \in {"parseError", "imageOnly"}
        /\ rq[r].pc \notin {"idle", "multer"}
        => /\ rq[r].failedAt # "pdf"
           /\ Len(rq[r].docs) = 1
           /\ "note" \in DOMAIN rq[r].docs[1].metadata
           /\ rq[r].docs[1].metadata.note = "Manual extraction required"
           /\ Len(rq[r].splits) = 1

\* C7: an upload of a file larger than 10MB is answered 400 (or 408 when the
\* timeout came first), never 500 or 200, and writes nothing.
C7_OversizeUploadIs400 ==
    \A r \in Slots :
        rq[r].kind = "upload" /\ rq[r].in.present /\ rq[r].in.size > fileSize =>
            /\ rq[r].wrote = 0
            /\ rq[r].pc \in {"multer", "done"}
            /\ rq[r].pc = "done" => rq[r].status \in {400, 408}

\* C8: a scrape of a reachable page without text is answered 400 'No content
\* found at the provided URL.' (or 408 when the timeout came first) and leaves
\* the vector database alone.
C8_EmptyPageRejected ==
    \A r \in Slots :
        /\ rq[r].kind = "scrape" /\ rq[r].in.reach
        /\ Trim(CollapseWs(rq[r].in.text)) = <<>>
        => /\ rq[r].pc \in {"fetch", "done"}
           /\ ~rq[r].touched
           /\ rq[r].pc = "done" =>
                \/ rq[r].status = 408
                \/ rq[r].status = 400 /\ rq[r].body = "No content found at the provided URL."

\* C9: an ingestion request whose write failed is answered 500 (or 408 when the
\* timeout came first), and the 500 response carries the number of that
\* request's chunks that were written.
C9_FailureReportsCount ==
    \A r \in Slots :
        rq[r].kind \in Ingest /\ rq[r].pc = "done" /\ rq[r].failedAt \in WriteSteps =>
            /\ rq[r].status \in {500, 408}
            /\ rq[r].status = 500 => rq[r].chunks # NoCount

\* C10: a process that lacks a required environment variable never listens and
\* runs no handler; when it has exited it has reported exactly the variables
\* that are missing.
C10_StartupRefusesMissingEnv ==
    /\ EnvNames \ env # {} =>
            /\ proc # "listening"
            /\ \A r \in Slots : rq[r].kind = "none" \/ ~ModuleLoads(rq[r].kind)
    /\ proc = "exited" => reported # {} /\ reported = EnvNames \ env

\* C11: a process started with GOOGLE_API_KEY set and QDRANT_URL unset does not
\* refuse to start, and the endpoint of its vector database is the default
\* http://localhost:6333.
C11_StartsWithDefaultUrl ==
    env = {"GOOGLE_API_KEY"} => proc # "exited" /\ QdrantUrl = "http://localhost:6333"

\* a request of kind k that has reached its handler
Handled(r, k) == rq[r].kind = k /\ ModuleLoads(k) /\ rq[r].pc # "idle"
BlankText(in) == ~in.present \/ Trim(in.text) = <<>>

SupportedMime == {"application/pdf", "text/plain", "text/csv"}

\* C13: an upload without a file, or with a file whose MIME type is none of
\* application/pdf, text/plain and text/csv, is answered 400 (or 408 when the
\* timeout came first) with 'No file uploaded.' or an error naming the MIME
\* type, and leaves the vector database unchanged.
C13_UploadRejectsMissingOrUnsupported ==
    \A r \in Slots :
        /\ Handled(r, "upload") /\ rq[r].pc # "multer"
        /\ ~rq[r].in.present \/ rq[r].in.mime \notin SupportedMime
        => /\ rq[r].pc = "done"
           /\ ~rq[r].touched /\ rq[r].wrote = 0
           /\ \/ rq[r].status = 408
              \/ /\ rq[r].status = 400
                 /\ rq[r].body = IF ~rq[r].in.present THEN "No file uploaded."
                                 ELSE <<"Unsupported file type: ", rq[r].in.mime>>

\* C14: an ingestion request answered with success reports as `chunks` the
\* number of chunks the splitter produced for it, and all of them are in the
\* collection; a posted text shorter than the chunk size yields one chunk equal
\* to the document content and `chunks` is 1.
C14_SuccessReportsChunks ==
    \A r \in Slots :
        rq[r].kind \in Ingest /\ rq[r].pc = "done" /\ rq[r].status = 200 =>
            /\ rq[r].chunks = Len(rq[r].splits)
            /\ rq[r].wrote = Len(rq[r].splits)
            /\ Range(rq[r].splits)
                 \subseteq Range(store[qdrantConfig(variant, rq[r].kind)].points)
            /\ rq[r].kind = "text" /\ Len(rq[r].docs[1].pageContent) < chunkSize =>
                 /\ rq[r].chunks = 1
                 /\ rq[r].splits[1].pageContent = rq[r].docs[1].pageContent

\* C15: a chat whose search ran when the vector database held nothing but the
\* chunk of an ingested text has retrieved that chunk, and its prompt holds the
\* chunk's content together with the source label 'direct-input'.
C15_ChatCitesDirectInput ==
    \A r \in Slots :
        rq[r].kind = "chat" /\ rq[r].afterText =>
            /\ Len(rq[r].found) > 0
            /\ \E i \in DOMAIN rq[r].prompt :
                  /\ rq[r].prompt[i].content = rq[r].found[i].pageContent
                  /\ rq[r].prompt[i].source = "direct-input"

C17_ChatFailsFast ==
    \A r \in Slots :
        Handled(r, "chat") =>
            /\ rq[r].modelCalls <= 1
            /\ rq[r].failedAt # "none" =>
                 /\ rq[r].pc = "done"
                 /\ rq[r].status = 500
                 /\ rq[r].body = "Failed to get a chat reply."

\* C17 witness: the model call of a chat request failed and the request was
\* answered 500 after that one call.
C17_Witness ==
    \E r \in Slots :
        /\ Handled(r, "chat") /\ rq[r].failedAt = "generate"
        /\ rq[r].modelCalls = 1 /\ rq[r].status = 500

HasSourceAndType(d) == {"source", "type"} \subseteq DOMAIN d.metadata

\* C18: every Document a normalizer produced carries a source and a type in
\* its metadata, and so does every chunk in the vector database.
C18_SourceAndTypeEverywhere ==
    /\ \A r \in Slots : \A i \in DOMAIN rq[r].docs : HasSourceAndType(rq[r].docs[i])
    /\ \A c \in Collections : \A i \in DOMAIN store[c].points :
            HasSourceAndType(store[c].points[i])

ZeroChunks(r) ==
    /\ rq[r].kind \in Ingest /\ rq[r].pc \notin {"idle", "multer", "fetch"}
    /\ rq[r].status # 400 /\ rq[r].failedAt \notin {"multer", "fetch", "pdf"}
    /\ rq[r].splits = <<>>

\* C19: an ingestion request whose document splits into zero chunks writes no
\* record, and unless a collaborator failed or the timeout came first it is
\* answered with success and `chunks: 0`.
C19_ZeroChunksIsSuccess ==
    \A r \in Slots :
        Handled(r, rq[r].kind) /\ ZeroChunks(r) =>
            /\ rq[r].wrote = 0
            /\ rq[r].pc = "done" /\ rq[r].failedAt = "none" =>
                 rq[r].status = 200 /\ rq[r].chunks = 0

\* C20: a chat retrieves at most 5 chunks, and entry i of its grounding block
\* is labelled 'Document i' and holds the source, the page when there is one,
\* and the content of the i-th retrieved chunk.
C20_ContextInRankOrder ==
    \A r \in Slots :
        Handled(r, "chat") /\ rq[r].pc = "generate" =>
            /\ Len(rq[r].found) <= 5
            /\ Len(rq[r].prompt) = Len(rq[r].found)
            /\ \A i \in DOMAIN rq[r].found :
                  LET d == rq[r].found[i]
                      e == rq[r].prompt[i]
                  IN  /\ e.label = <<"Document", i>>
                      /\ e.content = d.pageContent
                      /\ e.source = IF "source" \in DOMAIN d.metadata
                                    THEN d.metadata.source ELSE "Unknown source"
                      /\ e.page = IF "page" \in DOMAIN d.metadata
                                  THEN d.metadata.page ELSE ""

\* C21: a clear request waits for its recreate PUT only after its DELETE was
\* answered ok or 404; when it is answered with success its collection exists,
\* holds no record and has vectors of size 768 under Cosine distance; a DELETE
\* that fails is answered 500 (or 408 when the timeout came first) with no
\* recreate.
C21_ClearDeletesThenRecreates ==
    \A r \in Slots :
        Handled(r, "clear") =>
            LET c == store[qdrantConfig(variant, "clear")]
            IN  /\ rq[r].pc = "done" /\ rq[r].status = 200 =>
                     /\ c.exists /\ c.points = <<>>
                     /\ c.vectors = [size |-> 768, distance |-> "Cosine"]
                /\ rq[r].failedAt = "delete" =>
                     /\ rq[r].pc = "done" /\ rq[r].status \in {500, 408}
                     /\ ~rq[r].touched
                /\ rq[r].pc = "put" => "qdrant" \in rq[r].calls

\* C22: a clear whose recreate PUT fails is answered 500 (or 408 when the
\* timeout came first) and leaves its collection absent unless another request
\* created it; once an ingestion request is answered with success afterwards,
\* the collection exists again and the request's chunks are written.
C22_FailedRecreateHealsOnNextWrite ==
    \A r \in Slots :
        LET c == store[qdrantConfig(variant, "clear")]
        IN  /\ Handled(r, "clear") /\ rq[r].failedAt = "put" =>
                 /\ rq[r].pc = "done" /\ rq[r].status \in {500, 408}
                 /\ c.exists \/ c.leftAbsent
            /\ rq[r].kind \in Ingest /\ rq[r].pc = "done" /\ rq[r].status = 200 =>
                 /\ ~c.leftAbsent
                 /\ rq[r].wrote = Len(rq[r].splits)
                 /\ Range(rq[r].splits)
                      \subseteq Range(store[qdrantConfig(variant, rq[r].kind)].points)

InGetVectorStore == {"open", "create"}

C24_TimeoutOnlyAnswers ==
    [][\A r \in Slots :
        rq[r].kind \in Ingest /\ rq[r].timer = "armed" /\ rq'[r].timer = "fired" =>
            /\ rq'[r].pc = rq[r].pc
            /\ rq'[r].calls = rq[r].calls
            /\ rq'[r].wrote = rq[r].wrote
            /\ store' = store
            /\ rq'[r].status = IF rq[r].status = 0 THEN 408 ELSE rq[r].status]_vars

\* C24 witness: a request answered 408 whose chunks were written all the same;
\* the write came after the 408, since a write with no response sent yet is
\* answered 200 in the same step.
C24_Witness ==
    \E r \in Slots :
        /\ rq[r].kind \in Ingest /\ rq[r].status = 408
        /\ rq[r].wrote > 0 /\ rq[r].wrote = Len(rq[r].splits)
        /\ Range(rq[r].splits) \subseteq Range(store[qdrantConfig(variant, rq[r].kind)].points)


\* C25: a write of an ingestion request that is answered while its collection
\* is deleted fails: nothing is written, the collection stays absent and the
\* request ends in its catch block with 500 (or with the 408 sent before); the
\* witness is the interleaving in which this happens between the DELETE and
\* the PUT of a concurrent clear.
C25_WriteToDeletedCollectionFails ==
    [][\A r \in Slots :
        LET c == qdrantConfig(variant, rq[r].kind)
        IN  rq[r].pc = "upsert" /\ ~store[c].exists /\ rq'[r].pc # "upsert" =>
                /\ rq'[r].pc = "done" /\ rq'[r].failedAt = "upsert"
                /\ rq'[r].status \in {500, 408}
                /\ rq'[r].wrote = 0
                /\ ~store'[c].exists]_vars

\* C25 witness: a clear has deleted the collection and awaits its PUT, and the
\* ingestion request that held a handle on that collection was answered 500
\* from its write.
C25_Witness ==
    \E r, s \in Slots :
        /\ rq[r].kind \in Ingest /\ rq[s].kind = "clear"
        /\ qdrantConfig(variant, rq[r].kind) = qdrantConfig(variant, "clear")
        /\ rq[s].pc = "put" /\ rq[s].touched
        /\ ~store[qdrantConfig(variant, "clear")].exists
        /\ rq[r].pc = "done" /\ rq[r].failedAt = "upsert" /\ rq[r].status = 500


IsPrefix(a, b) == Len(a) <= Len(b) /\ SubSeq(b, 1, Len(a)) = a

\* C26: an ingestion request answered with success has all its chunks in its
\* collection at that moment, and no step of an ingestion request removes or
\* changes a record that is in a collection: so of two concurrent ingestion
\* requests that both succeed, with no clear, the collection holds every chunk.
C26_ConcurrentWritesKept ==
    /\ [](\A r \in Slots :
            rq[r].kind \in Ingest /\ rq[r].pc = "done" /\ rq[r].status = 200 =>
                /\ rq[r].wrote = Len(rq[r].splits)
                /\ Range(rq[r].splits)
                      \subseteq Range(store[qdrantConfig(variant, rq[r].kind)].points))
    /\ [][\A r \in Slots :
            rq[r].kind \in Ingest /\ rq'[r] # rq[r] =>
                \A c \in Collections : IsPrefix(store[c].points, store'[c].points)]_vars

\* C26 witness: the second of two ingestion requests, which arrived while the
\* first was in flight, is answered with success after the first one; the
\* collection, empty before them, holds more than the second request wrote.
C26_Witness ==
    LET c == qdrantConfig(variant, rq[2].kind)
    IN  /\ variant = "express" /\ arrived = 2
        /\ rq[1].pc = "idle"
        /\ rq[2].kind \in Ingest /\ rq[2].pc = "done" /\ rq[2].status = 200
        /\ rq[2].wrote > 0
        /\ Len(store[c].points) > rq[2].wrote
        /\ Range(store[c].points) \cap Range(Seeded.points) = {}
        /\ Range(rq[2].splits) \subseteq Range(store[c].points)


\* C27: in the timeout-guarded handlers a request gets at most one response:
\* once a status has been sent, no later step of the handler or of its timer
\* sends another status or body, in whatever order the timer and the handler
\* run.
C27_AtMostOneResponse ==
    [][\A r \in Slots :
        HasTimer(variant, rq[r].kind) /\ rq[r].status # 0 /\ rq'[r].pc # "idle" =>
            /\ rq'[r].status = rq[r].status
            /\ rq'[r].body = rq[r].body
            /\ rq'[r].chunks = rq[r].chunks]_vars

\* C27 witness: the timer has fired first, the handler then reached its
\* success response, and the request still carries the 408 alone.
C27_Witness ==
    \E r \in Slots :
        /\ HasTimer(variant, rq[r].kind) /\ rq[r].timer = "fired"
        /\ rq[r].pc = "done" /\ rq[r].failedAt = "reply"
        /\ rq[r].status = 408 /\ rq[r].body = "Request timeout."


\* C28: no step of a stats request adds, removes or changes a stored record;
\* the only change it can make is to create its absent collection, empty; it
\* answers 'ready' exactly when getVectorStore returned a handle (the
\* collection then exists) and 500 'Failed to get store statistics.' otherwise.
C28_StatsOnlyCreatesEmpty ==
    /\ [](\A r \in Slots :
            Handled(r, "stats") /\ rq[r].pc = "done" =>
                IF rq[r].failedAt = "none"
                THEN /\ rq[r].status = 200 /\ rq[r].body = "ready"
                     /\ store[qdrantConfig(variant, "stats")].exists
                ELSE /\ rq[r].status = 500
                     /\ rq[r].body = "Failed to get store statistics."
                     /\ rq[r].failedAt \in InGetVectorStore)
    /\ [][\A r \in Slots :
            rq'[r].kind = "stats" /\ rq'[r] # rq[r] =>
                \A c \in Collections :
                    /\ store'[c].points = store[c].points
                    /\ store'[c] # store[c] =>
                         /\ c = qdrantConfig(variant, "stats")
                         /\ ~store[c].exists
                         /\ store'[c] = Empty]_vars

\* C28 witness: a stats request found its collection absent, created it empty
\* and answered 'ready'.
C28_Witness ==
    \E r \in Slots :
        /\ Handled(r, "stats") /\ rq[r].pc = "done" /\ rq[r].status = 200
        /\ rq[r].body = "ready" /\ rq[r].touched
        /\ store[qdrantConfig(variant, "stats")] = Empty


AllOk(results) == \A i \in DOMAIN results : results[i]

\* C29: uploadFiles sends the selected files one at a time in selection order,
\* the next one only after the previous upload answered with success; at the
\* first failed upload it stops, the remaining files are not sent and the
\* selection is left alone; it clears the selection only when every file
\* succeeded; it ends the loading state in both cases.
C29_UploadsInOrderUntilFailure ==
    /\ [](/\ Len(up.sent) <= Len(up.snapshot)
          /\ up.sent = SubSeq(up.snapshot, 1, Len(up.sent))
          /\ up.pc = "fetch" =>
                /\ Len(up.results) = Len(up.sent) - 1
                /\ AllOk(up.results)
          /\ up.pc = "idle" /\ up.sent # <<>> =>
                /\ Len(up.results) = Len(up.sent)
                /\ AllOk(SubSeq(up.results, 1, Len(up.results) - 1))
                /\ up.results[Len(up.results)] => up.sent = up.snapshot)
    /\ [][up' # up =>
            /\ Len(up'.sent) > Len(up.sent) /\ up.pc = "fetch" =>
                 /\ Len(up'.sent) = Len(up.sent) + 1
                 /\ up'.results = Append(up.results, TRUE)
            /\ files' # files =>
                 /\ files' = <<>> /\ up'.pc = "idle"
                 /\ AllOk(up'.results) /\ Len(up'.results) = Len(up'.snapshot)
            /\ up.pc = "fetch" /\ up'.pc = "idle" =>
                 /\ ~isProcessing'
                 /\ files' = IF AllOk(up'.results) THEN <<>> ELSE files]_vars

\* C29 witness: of two selected files the first upload failed; the second
\* file was not sent, the selection is as it was and the loading state ended.
C29_Witness ==
    /\ up.pc = "idle" /\ Len(up.snapshot) = 2
    /\ up.results = <<FALSE>> /\ up.sent = <<up.snapshot[1]>>
    /\ files = up.snapshot
    /\ ~isProcessing

\* C30: isProcessing is true exactly while an operation of the user (add
\* text, upload files, add URL, clear store) is in flight.
C30_ProcessingIffInFlight ==
    isProcessing <=> (busy # {} \/ up.pc = "fetch")

====
